---------------------------- MODULE Spec2Model ----------------------------
(***************************************************************************)
(* A model of the Kale front end: the tokenizer of src/src/lexer.rs with   *)
(* its two-token lookahead window, the expression / prototype / function   *)
(* parser of src/src/parser.rs, and the second parser of src/src/ast.rs    *)
(* with its top-level loop Parser::parse_ast.                              *)
(*                                                                         *)
(* A byte is a one-character string.  A source is a sequence of bytes.     *)
(* A panic unwinds through every caller: the model marks the lexer         *)
(* panicked when get_tok panics, a panicked lexer shows only the Panic     *)
(* token (which no match arm but the wildcard accepts), and every result   *)
(* computed on a panicked lexer is a failure.                              *)
(***************************************************************************)
EXTENDS Integers, Sequences, FiniteSets, TLC

VARIABLES
  src,      \* the bytes the reader was built over (never changes)
  lexer,    \* the Lexer struct: peeker, tok_1st, tok_2nd (+ panicked, taken)
  call,     \* the last operation run on the lexer and what it returned
  buf,      \* Parser.buf of ast.rs: the units parse_ast has pushed so far
  pc        \* where the caller is: "ready", "parse_ast", "done", "panicked"

vars == <<src, lexer, call, buf, pc>>

---------------------------------------------------------------------------
(* Bytes and their classes: the u8::is_ascii_... predicates                *)

Lower == {"a","b","c","d","e","f","g","h","i","j","k","l","m",
          "n","o","p","q","r","s","t","u","v","w","x","y","z"}

Upper == {"A","B","C","D","E","F","G","H","I","J","K","L","M",
          "N","O","P","Q","R","S","T","U","V","W","X","Y","Z"}

Digit == {"0","1","2","3","4","5","6","7","8","9"}

is_ascii_alphabetic(c) == c \in Lower \cup Upper

is_ascii_digit(c) == c \in Digit

is_ascii_alphanumeric(c) == is_ascii_alphabetic(c) \/ is_ascii_digit(c)

\* space, tab, line feed, form feed, carriage return
is_ascii_whitespace(c) == c \in {" ", "\t", "\n", "\f", "\r"}

DigitVal(c) ==
  CASE c = "0" -> 0 [] c = "1" -> 1 [] c = "2" -> 2 [] c = "3" -> 3
    [] c = "4" -> 4 [] c = "5" -> 5 [] c = "6" -> 6 [] c = "7" -> 7
    [] c = "8" -> 8 [] c = "9" -> 9

---------------------------------------------------------------------------
(* Tokens (enum Token).  Every token is a record of the same shape; only   *)
(* Identifier carries text and only Number carries a value.                *)

NoNum == <<0, 0>>

Tok(k) == [kind |-> k, text |-> <<>>, num |-> NoNum]

Eof == Tok("Eof")

Def == Tok("Def")

Extern == Tok("Extern")

LeftParen == Tok("LeftParen")

RightParen == Tok("RightParen")

Comma == Tok("Comma")

Semi == Tok("Semi")

Add == Tok("Add")

Sub == Tok("Sub")

Mul == Tok("Mul")

Less == Tok("Less")

Identifier(s) == [kind |-> "Identifier", text |-> s, num |-> NoNum]

Number(n) == [kind |-> "Number", text |-> <<>>, num |-> n]

\* what a panicked lexer shows: not a Token of the program
Panic == Tok("Panic")

---------------------------------------------------------------------------
(* Numeric literals: str::parse::<f64> on a run of digits and dots that    *)
(* starts with a digit.  The text parses iff it holds at most one dot.     *)
(* The value is the decimal <<m, e>> = m / 10^e in lowest terms, so that   *)
(* 1.50 and 1.5 are the same number and 1.5 and 15 are not.                *)

RECURSIVE CountDots(_)
CountDots(s) ==
  IF s = <<>> THEN 0
  ELSE (IF Head(s) = "." THEN 1 ELSE 0) + CountDots(Tail(s))

RECURSIVE Mantissa(_, _)
Mantissa(s, acc) ==
  IF s = <<>> THEN acc
  ELSE IF Head(s) = "." THEN Mantissa(Tail(s), acc)
  ELSE Mantissa(Tail(s), acc * 10 + DigitVal(Head(s)))

RECURSIVE FracDigits(_, _)
FracDigits(s, seen) ==
  IF s = <<>> THEN 0
  ELSE IF Head(s) = "." THEN FracDigits(Tail(s), TRUE)
  ELSE (IF seen THEN 1 ELSE 0) + FracDigits(Tail(s), seen)

RECURSIVE Normal(_, _)
Normal(m, e) ==
  IF e > 0 /\ m % 10 = 0 THEN Normal(m \div 10, e - 1) ELSE <<m, e>>

\* a parse that takes any run of digits and dots
parse_f64_lenient(s) == TRUE

\* str::parse::<f64> returns Ok on a run of digits and dots that starts with
\* a digit
parse_f64_ok(s) == CountDots(s) <= 1

parse_f64(s) == Normal(Mantissa(s, 0), FracDigits(s, FALSE))

---------------------------------------------------------------------------
(* Lexer::get_tok                                                          *)

\* a comment that ends at the first space
InRun_word(cls, c) ==
  CASE cls = "comment" -> c \notin {"\n", " "}
    [] cls = "space"   -> is_ascii_whitespace(c)
    [] cls = "ident"   -> is_ascii_alphanumeric(c)
    [] cls = "number"  -> is_ascii_digit(c) \/ c = "."

\* Peekable::next_if in a while loop: how many leading bytes satisfy the
\* predicate of the arm `cls`
InRun(cls, c) ==
  CASE cls = "comment" -> c # "\n"
    [] cls = "space"   -> is_ascii_whitespace(c)
    [] cls = "ident"   -> is_ascii_alphanumeric(c)
    [] cls = "number"  -> is_ascii_digit(c) \/ c = "."

RECURSIVE RunLen(_, _)
RunLen(cls, s) ==
  IF s = <<>> \/ ~InRun(cls, Head(s)) THEN 0 ELSE 1 + RunLen(cls, Tail(s))

Drop(s, n) == SubSeq(s, n + 1, Len(s))

Take(s, n) == SubSeq(s, 1, n)

\* a keyword match that looks at the first bytes of the text only
Keyword_prefix(ident) ==
  IF Len(ident) >= 3 /\ SubSeq(ident, 1, 3) = <<"d","e","f">> THEN Def
  ELSE IF Len(ident) >= 6 /\ SubSeq(ident, 1, 6) = <<"e","x","t","e","r","n">>
    THEN Extern
  ELSE Identifier(ident)

\* the match on the text of get_tok's identifier arm
Keyword(ident) ==
  IF ident = <<"d","e","f">> THEN Def
  ELSE IF ident = <<"e","x","t","e","r","n">> THEN Extern
  ELSE Identifier(ident)

\* the wildcard arm of get_tok's match
OtherByte(c) == Def

\* a None arm that faults instead of yielding Eof
at_end_faults == [tok |-> Panic, peeker |-> <<>>, panicked |-> TRUE]

\* the None arm of get_tok's match: the reader is exhausted
at_end == [tok |-> Eof, peeker |-> <<>>, panicked |-> FALSE]

\* get_tok on the remaining bytes p: [tok, peeker, panicked]
RECURSIVE get_tok(_)
get_tok(p) ==
  IF p = <<>> THEN at_end
  ELSE
    LET c    == Head(p)
        rest == Tail(p)
        one(t) == [tok |-> t, peeker |-> rest, panicked |-> FALSE]
    IN  CASE c = "(" -> one(LeftParen)
          [] c = ")" -> one(RightParen)
          [] c = "," -> one(Comma)
          [] c = ";" -> one(Semi)
          [] c = "+" -> one(Add)
          [] c = "-" -> one(Sub)
          [] c = "*" -> one(Mul)
          [] c = "<" -> one(Less)
          [] c = "#" ->
               \* skip to the newline, then one more next() (the newline)
               LET after == Drop(rest, RunLen("comment", rest))
               IN  get_tok(IF after = <<>> THEN <<>> ELSE Tail(after))
          [] OTHER ->
               IF is_ascii_whitespace(c)
                 THEN get_tok(Drop(rest, RunLen("space", rest)))
               ELSE IF is_ascii_alphabetic(c)
                 THEN LET n == RunLen("ident", rest)
                      IN  [tok |-> Keyword(<<c>> \o Take(rest, n)),
                           peeker |-> Drop(rest, n), panicked |-> FALSE]
               ELSE IF is_ascii_digit(c)
                 THEN LET n   == RunLen("number", rest)
                          num == <<c>> \o Take(rest, n)
                      IN  IF parse_f64_ok(num)
                            THEN [tok |-> Number(parse_f64(num)),
                                  peeker |-> Drop(rest, n), panicked |-> FALSE]
                            ELSE [tok |-> Panic, peeker |-> Drop(rest, n),
                                  panicked |-> TRUE]
               ELSE one(OtherByte(c))

---------------------------------------------------------------------------
(* struct Lexer and its methods.  `taken` counts the next_token calls made *)
(* on the lexer (a history field, not a field of the struct).              *)

\* a panic unwinds: nothing more is read, and the window shows Panic
Dead(lx) == [peeker |-> <<>>, tok_1st |-> Panic, tok_2nd |-> Panic,
             panicked |-> TRUE, taken |-> lx.taken]

\* Bind(v, K) is K(v): `let x = v;` followed by the code K that uses x
Bind(v, K(_)) == K(v)

\* Lexer::new
new(reader) ==
  Bind(get_tok(reader), LAMBDA g1 :
  Bind(get_tok(g1.peeker), LAMBDA g2 :
  Bind([peeker |-> g2.peeker, tok_1st |-> g1.tok, tok_2nd |-> g2.tok,
        panicked |-> g1.panicked \/ g2.panicked, taken |-> 0], LAMBDA lx :
    IF lx.panicked THEN Dead(lx) ELSE lx)))

peek_first(lx) == lx.tok_1st

peek_second(lx) == lx.tok_2nd

\* a next_token that moves the refilled second slot into the first
Window_NoTmp(old_1st, old_2nd, fresh) == <<fresh, fresh>>

\* what next_token leaves in the window: <<tok_1st, tok_2nd>>
Window(old_1st, old_2nd, fresh) == <<old_2nd, fresh>>

\* Lexer::next_token: [tok, lx]
next_token(lx) ==
  IF lx.panicked THEN [tok |-> Panic, lx |-> lx]
  ELSE
    Bind(get_tok(lx.peeker), LAMBDA g :
    Bind(Window(lx.tok_1st, lx.tok_2nd, g.tok), LAMBDA w :
      IF g.panicked
        THEN [tok |-> Panic, lx |-> Dead(lx)]
        ELSE [tok |-> lx.tok_1st,
              lx  |-> [peeker |-> g.peeker, tok_1st |-> w[1], tok_2nd |-> w[2],
                       panicked |-> FALSE, taken |-> lx.taken + 1]]))

\* the lexer after one next_token whose result is dropped
eat(lx) == next_token(lx).lx

---------------------------------------------------------------------------
(* Results of the parse routines: [ok, val, lx, err].  ok = FALSE is a     *)
(* panic; err names the routine whose panic it was ("get_tok": the lexer). *)

NoVal == <<>>

Fail(lx, why) ==
  [ok |-> FALSE, val |-> NoVal, lx |-> lx,
   err |-> IF lx.panicked THEN "get_tok" ELSE why]

Ok(v, lx) ==
  IF lx.panicked THEN Fail(lx, "get_tok")
  ELSE [ok |-> TRUE, val |-> v, lx |-> lx, err |-> ""]

---------------------------------------------------------------------------
(* parser.rs: enum ExprAst, struct ProtoAst, struct FuncAst, enum Ast      *)

NumAst(n) ==
  [kind |-> "NumAst", num |-> n, name |-> <<>>, op |-> "", args |-> <<>>]

VarAst(s) ==
  [kind |-> "VarAst", num |-> NoNum, name |-> s, op |-> "", args |-> <<>>]

BinAst(l, o, r) ==
  [kind |-> "BinAst", num |-> NoNum, name |-> <<>>, op |-> o, args |-> <<l, r>>]

CallAst(f, a) ==
  [kind |-> "CallAst", num |-> NoNum, name |-> f, op |-> "", args |-> a]

ProtoAst(n, a) == [name |-> n, args |-> a]

FuncAst(p, b) == [proto |-> p, body |-> b]

Ast_Proto(p) == [unit |-> "Proto", proto |-> p, body |-> NoVal]

Ast_Func(f) == [unit |-> "Func", proto |-> f.proto, body |-> f.body]

\* a table that ranks every operator alike
get_precedence_flat(token) ==
  IF token \in {Less, Add, Sub, Mul} THEN 20 ELSE -1

\* a table that ranks `)` as well
get_precedence_paren(token) ==
  CASE token = Less       -> 10
    [] token = Add        -> 20
    [] token = Sub        -> 20
    [] token = Mul        -> 40
    [] token = RightParen -> 5
    [] OTHER              -> -1

\* ExprAst::get_precedence
get_precedence(token) ==
  CASE token = Less -> 10
    [] token = Add  -> 20
    [] token = Sub  -> 20
    [] token = Mul  -> 40
    [] OTHER        -> -1

\* the match on the consumed token in parse_bin_rhs: "" is the panic arm
operator_of(token) ==
  CASE token = Less -> "<"
    [] token = Add  -> "+"
    [] token = Sub  -> "-"
    [] token = Mul  -> "*"
    [] OTHER        -> ""

\* a test that also ends parse_bin_rhs in front of every `<`
stops_at_less(prec_cur, prec_prev) == prec_cur <= prec_prev \/ prec_cur = 10

\* the test that ends parse_bin_rhs: the pending token does not bind
\* tighter than the threshold
stops(prec_cur, prec_prev) == prec_cur <= prec_prev

\* the test of the loop in parse_bin_rhs: the operator after rhs does not
\* bind tighter than the current one, so lhs and rhs are merged
merges(prec_next, prec_cur) == prec_next <= prec_cur

\* an Identifier arm that looks at the pending token instead of the second
is_call_first(lx) == peek_first(lx) = LeftParen

\* the test of parse_primary's Identifier arm
is_call(lx) == peek_second(lx) = LeftParen

\* The routines of parser.rs call one another.  Call(f, a) is the call of
\* the routine named f with the arguments a; it is defined after them.
RECURSIVE Call(_, _)

\* ExprAst::parse
ExprAst_parse(lx) ==
  LET lhs == Call("parse_primary", <<lx>>)
  IN  IF ~lhs.ok THEN lhs ELSE Call("parse_bin_rhs", <<lhs.lx, lhs.val, 0>>)

\* ExprAst::parse_bin_rhs
parse_bin_rhs(lx, lhs, prec_prev) ==
  LET prec_cur == get_precedence(peek_first(lx))
  IN  IF stops(prec_cur, prec_prev) THEN Ok(lhs, lx)
      ELSE
        LET nt       == next_token(lx)
            operator == operator_of(nt.tok)
            rhs      == Call("parse_primary", <<nt.lx>>)
        IN  IF operator = "" THEN Fail(nt.lx, "parse_bin_rhs")
            ELSE IF ~rhs.ok THEN rhs
            ELSE Call("parse_bin_rhs_loop",
                      <<rhs.lx, lhs, operator, rhs.val, prec_cur, prec_prev>>)

\* the loop of parse_bin_rhs, one iteration per unfolding
parse_bin_rhs_loop(lx, lhs, operator, rhs, prec_cur, prec_prev) ==
  LET prec_next == get_precedence(peek_first(lx))
  IN  IF merges(prec_next, prec_cur)
        THEN Call("parse_bin_rhs",
                  <<lx, BinAst(lhs, operator, rhs), prec_prev>>)
        ELSE LET r == Call("parse_bin_rhs", <<lx, rhs, prec_cur>>)
             IN  IF ~r.ok THEN r
                 ELSE Call("parse_bin_rhs_loop",
                           <<r.lx, lhs, operator, r.val, prec_cur, prec_prev>>)

\* ExprAst::parse_number
parse_number(lx) ==
  LET nt == next_token(lx)
  IN  IF nt.tok.kind = "Number" THEN Ok(NumAst(nt.tok.num), nt.lx)
      ELSE Fail(nt.lx, "parse_number")

\* ExprAst::parse_var
parse_var(lx) ==
  LET nt == next_token(lx)
  IN  IF nt.tok.kind = "Identifier" THEN Ok(VarAst(nt.tok.text), nt.lx)
      ELSE Fail(nt.lx, "parse_var")

\* ExprAst::parse_primary
parse_primary(lx) ==
  LET k == peek_first(lx).kind
  IN  CASE k = "Number"     -> parse_number(lx)
        [] k = "LeftParen"  -> Call("parse_paren", <<lx>>)
        [] k = "Identifier" -> IF is_call(lx) THEN Call("parse_call", <<lx>>)
                               ELSE parse_var(lx)
        [] OTHER            -> Fail(lx, "parse_primary")

\* a parse_paren that takes the end of the stream for the closing `)`
closes_at_eof(token) == token = RightParen \/ token = Eof

\* parse_paren's match on the token pending after the inner expression
closes(token) == token = RightParen

\* ExprAst::parse_paren
parse_paren(lx) ==
  LET expr == Call("ExprAst::parse", <<eat(lx)>>)
  IN  IF ~expr.ok THEN expr
      ELSE IF closes(peek_first(expr.lx)) THEN Ok(expr.val, eat(expr.lx))
      ELSE Fail(expr.lx, "parse_paren")

\* ExprAst::parse_call
parse_call(lx) ==
  LET nt == next_token(lx)
  IN  IF nt.tok.kind # "Identifier" THEN Fail(nt.lx, "parse_call")
      ELSE Call("parse_call_loop", <<eat(nt.lx), nt.tok.text, <<>> >>)

\* the loop of parse_call, one iteration per unfolding, and what follows it
parse_call_loop(lx, name, args) ==
  IF peek_first(lx) = RightParen THEN Ok(CallAst(name, args), eat(lx))
  ELSE
    LET arg == Call("ExprAst::parse", <<lx>>)
    IN  IF ~arg.ok THEN arg
        ELSE CASE peek_first(arg.lx) = RightParen ->
                    Ok(CallAst(name, Append(args, arg.val)), eat(arg.lx))
               [] peek_first(arg.lx) = Comma ->
                    Call("parse_call_loop",
                         <<eat(arg.lx), name, Append(args, arg.val)>>)
               [] OTHER -> Fail(arg.lx, "parse_call")

\* the loop of ProtoAst::parse
RECURSIVE ProtoAst_parse_loop(_, _, _)
ProtoAst_parse_loop(lx, name, args) ==
  LET nt == next_token(lx)
  IN  CASE nt.tok = RightParen -> Ok(ProtoAst(name, args), nt.lx)
        [] nt.tok = Comma ->
             ProtoAst_parse_loop(nt.lx, name, args)
        [] nt.tok.kind = "Identifier" ->
             ProtoAst_parse_loop(nt.lx, name, Append(args, nt.tok.text))
        [] OTHER -> Fail(nt.lx, "ProtoAst::parse")

\* ProtoAst::parse
ProtoAst_parse(lx) ==
  LET nt == next_token(lx)
  IN  IF nt.tok.kind # "Identifier" THEN Fail(nt.lx, "ProtoAst::parse")
      ELSE ProtoAst_parse_loop(eat(nt.lx), nt.tok.text, <<>>)

\* FuncAst::parse
FuncAst_parse(lx) ==
  LET proto == Call("ProtoAst::parse", <<eat(lx)>>)
      body  == Call("ExprAst::parse", <<proto.lx>>)
  IN  IF ~proto.ok THEN proto
      ELSE IF ~body.ok THEN body
      ELSE Ok(FuncAst(proto.val, body.val), body.lx)

\* Ast::parse_extern
parse_extern(lx) ==
  LET proto == Call("ProtoAst::parse", <<eat(lx)>>)
  IN  IF ~proto.ok THEN proto ELSE Ok(Ast_Proto(proto.val), proto.lx)

\* Ast::parse_top_level_expr
parse_top_level_expr(lx) ==
  LET expr == Call("ExprAst::parse", <<lx>>)
  IN  IF ~expr.ok THEN expr
      ELSE Ok(Ast_Func(FuncAst(ProtoAst(<<>>, <<>>), expr.val)), expr.lx)

\* Ast::parse
Ast_parse(lx) ==
  CASE peek_first(lx) = Extern -> Call("parse_extern", <<lx>>)
    [] peek_first(lx) = Def ->
         LET f == Call("FuncAst::parse", <<lx>>)
         IN  IF ~f.ok THEN f ELSE Ok(Ast_Func(f.val), f.lx)
    [] OTHER -> Call("parse_top_level_expr", <<lx>>)

Call(f, a) ==
  CASE f = "ExprAst::parse"       -> ExprAst_parse(a[1])
    [] f = "parse_bin_rhs"        -> parse_bin_rhs(a[1], a[2], a[3])
    [] f = "parse_bin_rhs_loop"   ->
         parse_bin_rhs_loop(a[1], a[2], a[3], a[4], a[5], a[6])
    [] f = "parse_primary"        -> parse_primary(a[1])
    [] f = "parse_paren"          -> parse_paren(a[1])
    [] f = "parse_call"           -> parse_call(a[1])
    [] f = "parse_call_loop"      -> parse_call_loop(a[1], a[2], a[3])
    [] f = "ProtoAst::parse"      -> ProtoAst_parse(a[1])
    [] f = "FuncAst::parse"       -> FuncAst_parse(a[1])
    [] f = "parse_extern"         -> parse_extern(a[1])
    [] f = "parse_top_level_expr" -> parse_top_level_expr(a[1])
    [] f = "Ast::parse"           -> Ast_parse(a[1])

---------------------------------------------------------------------------
(* ast.rs: enum ExprAST, struct PrototypeAST, struct FunctionAST, enum Ast *)
(* and struct Parser                                                       *)

NumberExpr(n) ==
  [kind |-> "NumberExpr", num |-> n, name |-> <<>>, op |-> "", args |-> <<>>]

VariableExpr(s) ==
  [kind |-> "VariableExpr", num |-> NoNum, name |-> s, op |-> "", args |-> <<>>]

BinaryExpr(l, o, r) ==
  [kind |-> "BinaryExpr", num |-> NoNum, name |-> <<>>, op |-> o,
   args |-> <<l, r>>]

CallExpr(f, a) ==
  [kind |-> "CallExpr", num |-> NoNum, name |-> f, op |-> "", args |-> a]

PrototypeAST(n, a) == [name |-> n, args |-> a]

FunctionAST(p, b) == [proto |-> p, body |-> b]

Ast_ExprAST(e) == [unit |-> "ExprAST", proto |-> NoVal, body |-> e]

Ast_PrototypeAST(p) == [unit |-> "PrototypeAST", proto |-> p, body |-> NoVal]

Ast_FunctionAST(f) ==
  [unit |-> "FunctionAST", proto |-> f.proto, body |-> f.body]

\* a table of ast.rs that ranks every operator alike
precedence_flat(tok) ==
  IF tok \in {Less, Add, Sub, Mul} THEN 20 ELSE -1

\* fn precedence
precedence(tok) ==
  CASE tok = Less -> 10
    [] tok = Add  -> 20
    [] tok = Sub  -> 20
    [] tok = Mul  -> 40
    [] OTHER      -> -1

\* the match on the consumed token in parse_bin_ops: "" is the panic arm
binop_of(token) ==
  CASE token = Add  -> "+"
    [] token = Sub  -> "-"
    [] token = Less -> "<"
    [] token = Mul  -> "*"
    [] OTHER        -> ""

\* CallAST(f, a) is the call of the routine of ast.rs named f with the
\* arguments a; it is defined after them.
RECURSIVE CallAST(_, _)

\* ExprAST::parse
ExprAST_parse(lx) ==
  LET lhs == CallAST("parse_primary", <<lx>>)
  IN  IF ~lhs.ok THEN lhs ELSE CallAST("parse_bin_ops", <<lhs.lx, 0, lhs.val>>)

\* ExprAST::parse_bin_ops
parse_bin_ops(lx, expr_prec, lhs) ==
  LET tok_prec == precedence(peek_first(lx))
  IN  IF tok_prec < expr_prec THEN Ok(lhs, lx)
      ELSE
        LET nt    == next_token(lx)
            binop == binop_of(nt.tok)
            rhs   == CallAST("parse_primary", <<nt.lx>>)
        IN  IF binop = "" THEN Fail(nt.lx, "parse_bin_ops")
            ELSE IF ~rhs.ok THEN rhs
            ELSE
              LET next_prec == precedence(peek_first(rhs.lx))
                  rhs2 == IF tok_prec < next_prec
                            THEN CallAST("parse_bin_ops",
                                         <<rhs.lx, tok_prec + 1, rhs.val>>)
                            ELSE rhs
              IN  IF ~rhs2.ok THEN rhs2
                  ELSE CallAST("parse_bin_ops",
                               <<rhs2.lx, expr_prec,
                                 BinaryExpr(lhs, binop, rhs2.val)>>)

\* ExprAST::parse_primary
ExprAST_parse_primary(lx) ==
  LET token == peek_first(lx)
  IN  CASE token.kind = "Number" -> Ok(NumberExpr(token.num), eat(lx))
        [] token.kind = "LeftParen" -> CallAST("parse_paren", <<lx>>)
        [] token.kind = "Identifier" ->
             IF peek_second(lx) = LeftParen THEN CallAST("parse_call", <<lx>>)
             ELSE LET nt == next_token(lx)
                  IN  IF nt.tok.kind = "Identifier"
                        THEN Ok(VariableExpr(nt.tok.text), nt.lx)
                        ELSE Fail(nt.lx, "ExprAST::parse_primary")
        [] OTHER -> Fail(lx, "ExprAST::parse_primary")

\* ExprAST::parse_paren
ExprAST_parse_paren(lx) ==
  LET val == CallAST("ExprAST::parse", <<eat(lx)>>)
  IN  IF ~val.ok THEN val
      ELSE IF peek_first(val.lx) # RightParen
        THEN Fail(val.lx, "ExprAST::parse_paren")
      ELSE Ok(val.val, eat(val.lx))

\* ExprAST::parse_call
ExprAST_parse_call(lx) ==
  LET nt == next_token(lx)
  IN  IF nt.tok.kind # "Identifier" THEN Fail(nt.lx, "ExprAST::parse_call")
      ELSE CallAST("parse_call_loop", <<eat(nt.lx), nt.tok.text, <<>> >>)

\* the loop of ExprAST::parse_call, one iteration per unfolding
ExprAST_parse_call_loop(lx, name, args) ==
  LET arg == CallAST("ExprAST::parse", <<lx>>)
  IN  IF ~arg.ok THEN arg
      ELSE IF peek_first(arg.lx) = RightParen
        THEN Ok(CallExpr(name, Append(args, arg.val)), eat(arg.lx))
      ELSE IF peek_first(arg.lx) = Comma
        THEN CallAST("parse_call_loop",
                     <<eat(arg.lx), name, Append(args, arg.val)>>)
      ELSE Fail(arg.lx, "ExprAST::parse_call")

\* the while-let loop of PrototypeAST::parse: it ends on the first token
\* that is no Identifier, which next_token has consumed by then
RECURSIVE PrototypeAST_parse_loop(_, _)
PrototypeAST_parse_loop(lx, args) ==
  LET nt == next_token(lx)
  IN  IF nt.tok.kind = "Identifier"
        THEN PrototypeAST_parse_loop(nt.lx, Append(args, nt.tok.text))
        ELSE [lx |-> nt.lx, args |-> args]

\* PrototypeAST::parse
PrototypeAST_parse(lx) ==
  LET nt   == next_token(lx)
      tok  == next_token(nt.lx)
      loop == PrototypeAST_parse_loop(tok.lx, <<>>)
  IN  IF nt.tok.kind # "Identifier" THEN Fail(nt.lx, "PrototypeAST::parse")
      ELSE IF tok.tok # LeftParen THEN Fail(tok.lx, "PrototypeAST::parse")
      ELSE IF peek_first(loop.lx) # RightParen
        THEN Fail(loop.lx, "PrototypeAST::parse")
      ELSE Ok(PrototypeAST(nt.tok.text, loop.args), eat(loop.lx))

\* FunctionAST::parse
FunctionAST_parse(lx) ==
  LET proto == CallAST("PrototypeAST::parse", <<eat(lx)>>)
      body  == CallAST("ExprAST::parse", <<proto.lx>>)
  IN  IF ~proto.ok THEN proto
      ELSE IF ~body.ok THEN body
      ELSE Ok(FunctionAST(proto.val, body.val), body.lx)

\* an iteration whose `;` arm leaves the `;` pending
parse_ast_step_keeps_semi(lx) ==
  LET token == peek_first(lx)
      none(l, s) == [ok |-> ~l.panicked, val |-> <<>>, lx |-> l,
                     err |-> IF l.panicked THEN "get_tok" ELSE "", stop |-> s]
      push(r, u) == [ok |-> r.ok, val |-> IF r.ok THEN <<u>> ELSE <<>>,
                     lx |-> r.lx, err |-> r.err, stop |-> FALSE]
  IN  CASE token = Eof  -> none(lx, TRUE)
        [] token = Semi -> none(lx, FALSE)
        [] token = Def  ->
             LET f == CallAST("FunctionAST::parse", <<lx>>)
             IN  push(f, IF f.ok THEN Ast_FunctionAST(f.val) ELSE NoVal)
        [] token = Extern ->
             LET p == CallAST("PrototypeAST::parse", <<eat(lx)>>)
             IN  push(p, IF p.ok THEN Ast_PrototypeAST(p.val) ELSE NoVal)
        [] OTHER ->
             LET e == CallAST("ExprAST::parse", <<lx>>)
             IN  push(e, IF e.ok THEN Ast_ExprAST(e.val) ELSE NoVal)

\* one iteration of the loop of Parser::parse_ast on the pending token:
\* [ok, val, lx, err] with val = <<the unit pushed>>, <<>> when none is, and
\* stop = TRUE on the break
parse_ast_step(lx) ==
  LET token == peek_first(lx)
      none(l, s) == [ok |-> ~l.panicked, val |-> <<>>, lx |-> l,
                     err |-> IF l.panicked THEN "get_tok" ELSE "", stop |-> s]
      push(r, u) == [ok |-> r.ok, val |-> IF r.ok THEN <<u>> ELSE <<>>,
                     lx |-> r.lx, err |-> r.err, stop |-> FALSE]
  IN  CASE token = Eof  -> none(lx, TRUE)
        [] token = Semi -> none(eat(lx), FALSE)
        [] token = Def  ->
             LET f == CallAST("FunctionAST::parse", <<lx>>)
             IN  push(f, IF f.ok THEN Ast_FunctionAST(f.val) ELSE NoVal)
        [] token = Extern ->
             LET p == CallAST("PrototypeAST::parse", <<eat(lx)>>)
             IN  push(p, IF p.ok THEN Ast_PrototypeAST(p.val) ELSE NoVal)
        [] OTHER ->
             LET e == CallAST("ExprAST::parse", <<lx>>)
             IN  push(e, IF e.ok THEN Ast_ExprAST(e.val) ELSE NoVal)

CallAST(f, a) ==
  CASE f = "ExprAST::parse"      -> ExprAST_parse(a[1])
    [] f = "parse_bin_ops"       -> parse_bin_ops(a[1], a[2], a[3])
    [] f = "parse_primary"       -> ExprAST_parse_primary(a[1])
    [] f = "parse_paren"         -> ExprAST_parse_paren(a[1])
    [] f = "parse_call"          -> ExprAST_parse_call(a[1])
    [] f = "parse_call_loop"     -> ExprAST_parse_call_loop(a[1], a[2], a[3])
    [] f = "PrototypeAST::parse" -> PrototypeAST_parse(a[1])
    [] f = "FunctionAST::parse"  -> FunctionAST_parse(a[1])
    [] f = "parse_ast"           -> parse_ast_step(a[1])

---------------------------------------------------------------------------
(* Sources.  A word is the spelling of one token; a source written as a    *)
(* list of words has one space between two words.                          *)

RECURSIVE Spell(_)
Spell(ws) ==
  IF ws = <<>> THEN <<>>
  ELSE IF Len(ws) = 1 THEN ws[1]
  ELSE ws[1] \o <<" ">> \o Spell(Tail(ws))

SeqsUpTo(S, n) == UNION {[1..k -> S] : k \in 0..n}

\* bounds of the model
MaxBytes == 4

MaxOps == 4

MaxWords == 5

MaxUnits == 4

MaxCalls == 6

\* the bytes the lexer sources are made of: one or two of each class that
\* get_tok tells apart, and a byte no arm of it names
LexBytes == {"a", "1", ".", "(", ";", " ", "\n", "#", "@"}

\* the words of expressions
ExprWords == {<<"a">>, <<"1">>, <<"(">>, <<")">>, <<",">>, <<"+">>, <<"*">>}

\* the words of top-level units
UnitWords == {<<"a">>, <<"1">>, <<"(">>, <<")">>, <<",">>, <<";">>, <<"+">>,
              <<"d","e","f">>, <<"e","x","t","e","r","n">>}

Operators == {<<"+">>, <<"-">>, <<"*">>, <<"<">>}

\* the operands of an operator chain, by position
Primaries == << <<"1">>, <<"f","o","o">>, <<"b","a","r">>, <<"4","2">>,
                <<"b","a","z">>, <<"x">>, <<"7">>, <<"y">>, <<"3">>, <<"z">> >>

\* p0 op1 p1 ... opn pn
Chain(ops) ==
  Spell([i \in 1..(2 * Len(ops) + 1) |->
           IF i % 2 = 1 THEN Primaries[(i + 1) \div 2] ELSE ops[i \div 2]])

\* the sources of the tests of lexer.rs and parser.rs and of the
\* specification's scenarios
Examples ==
  { <<>>,
    <<"(", ",", ")">>,
    <<"3", ".", "1", "4">>,
    <<"f","o","o"," ","d","e","f"," ","b","a","r"," ","e","x","t","e","r","n">>,
    <<"d","e","f"," ","f","o","o"," "," ","#"," ","c"," ","\n"," ","4","2">>,
    <<" ", "4", "2", " ">>,
    <<"f","o","o">>,
    <<"(", "f","o","o", " ", ")">>,
    <<"1"," ","+"," ","f","o","o">>,
    <<"1"," ","+"," ","f","o","o"," ","*"," ","4","2">>,
    <<"1"," ","+"," ","f","o","o"," ","-"," ","4","2">>,
    <<"1"," ","<"," ","f","o","o"," ","+"," ","b","a","r"," ","*"," ","4","2",
      " ","-"," ","b","a","z">>,
    <<"f","o","o","(","1"," ","+"," ","2",","," ","b","a","r",","," ","4","2",")">>,
    <<"f","o","o","(","a",","," ","b",","," ","c",")",";">>,
    <<"d","e","f"," ","f","o","o","(","a",","," ","b",","," ","c",")"," ",
      "a","+","b","*","c">>,
    <<"d","e","f"," ","f","o","o","(","a"," ","b",")"," ","a","+","b","*","2">>,
    <<"1"," ","+"," ","2"," ","*"," ","3">>,
    <<"1"," ","-"," ","2"," ","-"," ","3">>,
    <<"(","1"," ","+"," ","2",")"," ","*"," ","3">>,
    <<"f","o","o","(",")">>,
    <<"f","o","o","(","1",",","2",")">>,
    <<"(","1"," ","+">>,
    <<"f","o","o","(","1",",",")">>,
    <<"e","x","t","e","r","n"," ","f","o","o","(","a"," ","b",")",";">> }

\* further sources: deeper nestings than the bounded sets hold
Probes ==
  { <<"2"," ","*"," ","(","1"," ","+"," ","3",")">>,
    <<"(","(","a"," ","+"," ","1",")"," ","*"," ","2",")"," ","<"," ","b">>,
    <<"f","(","g","(","1",",","x",")",","," ","(","2",")",","," ","y"," ","*"," ","3",")">>,
    <<"f","(","(","1",",","2",")",")">>,
    <<"f","(","1",","," ","g","(",")",",",")">>,
    <<"d","e","f"," ","f","(","a"," ","a",")"," ","a",";","e","x","t","e","r","n"," ",
      "g","(",")",";","1","+","2",";">>,
    <<"1",";","a","(","2",")",";",";","3"," ","*"," ","b",";">>,
    <<"1","+","@">>,
    <<"1",".","2",".","3">>,
    <<"a"," ","1"," ","1",".","2",".","3">>,
    <<"(","1",")"," ","a"," ","1",".","2",".","3">> }

---------------------------------------------------------------------------
(* The state machine.  Init is the state after Lexer::new(reader); each    *)
(* action is one call a caller makes on the lexer, or one iteration of the *)
(* loop of Parser::parse_ast.  A panic ends the caller.                    *)

Start(reader) ==
  /\ src = reader
  /\ lexer = new(reader)
  /\ call = [op |-> "new", pre |-> new(reader), ok |-> ~new(reader).panicked,
             val |-> NoVal, err |-> IF new(reader).panicked THEN "get_tok" ELSE ""]
  /\ buf = <<>>
  /\ pc = IF new(reader).panicked THEN "panicked" ELSE "ready"

\* the call `op` returned r
Returns(op, r) ==
  /\ lexer' = r.lx
  /\ call' = [op |-> op, pre |-> lexer, ok |-> r.ok, val |-> r.val, err |-> r.err]
  /\ pc' = IF r.ok THEN "ready" ELSE "panicked"
  /\ UNCHANGED <<src, buf>>

\* a caller that has just built the lexer
Fresh == pc = "ready" /\ call.op = "new"

\* the result of next_token as a result [ok, val, lx, err]
Token(nt) ==
  [ok |-> ~nt.lx.panicked, val |-> nt.tok, lx |-> nt.lx,
   err |-> IF nt.lx.panicked THEN "get_tok" ELSE ""]

\* lexer.next_token(), called any number of times
NextToken ==
  /\ pc = "ready"
  /\ call.op \in {"new", "next_token"}
  /\ lexer.taken < MaxCalls
  /\ Returns("next_token", Token(next_token(lexer)))

\* ExprAst::parse(&mut lexer)
ExprAstParse ==
  Fresh /\ Returns("ExprAst::parse", Call("ExprAst::parse", <<lexer>>))

\* ExprAst::parse_primary(&mut lexer)
PrimaryParse ==
  Fresh /\ Returns("parse_primary", Call("parse_primary", <<lexer>>))

\* ProtoAst::parse(&mut lexer)
ProtoAstParse ==
  Fresh /\ Returns("ProtoAst::parse", Call("ProtoAst::parse", <<lexer>>))

\* FuncAst::parse(&mut lexer)
FuncAstParse ==
  Fresh /\ Returns("FuncAst::parse", Call("FuncAst::parse", <<lexer>>))

\* Ast::parse(&mut lexer), called once per unit
AstParse ==
  /\ pc = "ready"
  /\ call.op \in {"new", "Ast::parse"}
  /\ Returns("Ast::parse", Call("Ast::parse", <<lexer>>))

\* ExprAST::parse(&mut lexer)
ExprASTParse ==
  Fresh /\ Returns("ExprAST::parse", CallAST("ExprAST::parse", <<lexer>>))

\* PrototypeAST::parse(&mut lexer)
PrototypeASTParse ==
  Fresh /\ Returns("PrototypeAST::parse",
                   CallAST("PrototypeAST::parse", <<lexer>>))

\* FunctionAST::parse(&mut lexer)
FunctionASTParse ==
  Fresh /\ Returns("FunctionAST::parse",
                   CallAST("FunctionAST::parse", <<lexer>>))

\* the iteration of parse_ast's loop did r
Iterates(r) ==
  /\ lexer' = r.lx
  /\ call' = [op |-> "parse_ast", pre |-> lexer, ok |-> r.ok, val |-> r.val,
              err |-> r.err]
  /\ buf' = buf \o r.val
  /\ pc' = IF ~r.ok THEN "panicked" ELSE IF r.stop THEN "done" ELSE "parse_ast"
  /\ UNCHANGED src

\* Parser::new().parse_ast(&mut lexer): one iteration of its loop
ParseAst ==
  /\ Fresh \/ pc = "parse_ast"
  /\ Iterates(CallAST("parse_ast", <<lexer>>))

Init == \E ws \in SeqsUpTo(UnitWords, MaxUnits) : Start(Spell(ws))

InitExamples == \E reader \in Examples \cup Probes : Start(reader)

Next ==
  \/ NextToken
  \/ ExprAstParse
  \/ PrimaryParse
  \/ ProtoAstParse
  \/ FuncAstParse
  \/ AstParse
  \/ ExprASTParse
  \/ PrototypeASTParse
  \/ FunctionASTParse
  \/ ParseAst

\* every entry point, on the sources made of the words of top-level units
\* and on the examples
Spec == (Init \/ InitExamples) /\ [][Next]_vars

InitLexer == \E reader \in SeqsUpTo(LexBytes, MaxBytes) : Start(reader)

\* texts of identifiers and keywords, as in tests::token_identifiers, and
\* texts a keyword is part of
IdentTexts ==
  { <<"f","o","o">>, <<"d","e","f">>, <<"b","a","r">>,
    <<"e","x","t","e","r","n">>, <<"d","e","f","i","n","e">>,
    <<"d","e","f","1">>, <<"e","x","t","e","r","n","s">>, <<"d","e">>,
    <<"D","e","f">>, <<"x","9","z">> }

\* what may follow the text of an identifier
Enders ==
  { <<>>, <<" ">>, <<"\n">>, <<"(">>, <<"+">>, <<";">>, <<".">>, <<"#">>,
    <<"@">>, <<"_">> }

\* a source that starts with an identifier or a keyword
InitIdent ==
  \E w \in IdentTexts, e \in Enders, v \in IdentTexts \cup {<<>>} :
    Start(w \o e \o v)

\* the lexer alone, on every short sequence of bytes, on identifiers and
\* keywords and on the examples
SpecLexer == (InitLexer \/ InitIdent \/ InitExamples) /\ [][NextToken]_vars

InitChain == \E ops \in SeqsUpTo(Operators, MaxOps) : Start(Chain(ops))

InitExpr == \E ws \in SeqsUpTo(ExprWords, MaxWords) : Start(Spell(ws))

MaxTop == 3

InitTop == \E ws \in SeqsUpTo(UnitWords, MaxTop) : Start(Spell(ws))

\* The thread that runs Parser::parse_ast keeps running: while it is in the
\* loop it takes another iteration, since nothing but the loop's own code
\* decides whether it goes on.  This is WF_vars(ParseAst) with the guard of
\* the loop's step, pc = "parse_ast", written in place of
\* ENABLED <<ParseAst>>_vars.
Runs == []<>(pc # "parse_ast") \/ []<><<ParseAst>>_vars

\* the loop of Parser::parse_ast, on short sources of the words of
\* top-level units and on the examples
SpecTop == (InitTop \/ InitExamples) /\ [][ParseAst]_vars /\ Runs

NextExpr == ExprAstParse \/ PrimaryParse \/ ExprASTParse

\* the two expression parsers, on operator chains, on the sources made of
\* the words of expressions and on the examples
SpecExpr == (InitChain \/ InitExpr \/ InitExamples) /\ [][NextExpr]_vars

---------------------------------------------------------------------------
(* What the claims speak of: the tokens of a source, the tokens a call     *)
(* consumed, the tokens a tree is made of.                                 *)

\* the k-th token (from 0) of the bytes p, Eof past the end
RECURSIVE TokenAt(_, _)
TokenAt(p, k) ==
  Bind(get_tok(p), LAMBDA g :
    IF k = 0 \/ g.tok = Eof \/ g.panicked THEN g.tok
    ELSE TokenAt(g.peeker, k - 1))

\* the i-th token (from 1) pending in the lexer lx
Pending(lx, i) ==
  IF i = 1 THEN lx.tok_1st
  ELSE IF i = 2 THEN lx.tok_2nd
  ELSE TokenAt(lx.peeker, i - 3)

\* the tokens consumed between the lexer states pre and post
Took(pre, post) == [i \in 1..(post.taken - pre.taken) |-> Pending(pre, i)]

\* the tokens the last call consumed
Consumed == Took(call.pre, lexer)

\* the last call was `op`, made on the lexer just built over src, and the
\* lexer did not panic on a byte read ahead during the call
Ran(op) == call.op = op /\ call.pre = new(src) /\ ~lexer.panicked

IsPrimaryToken(t) == t.kind \in {"Number", "Identifier"}

IsOperatorToken(t) == t \in {Add, Sub, Mul, Less}

---------------------------------------------------------------------------
(* C1: the lookahead window                                                *)

\* C1: after Lexer::new and k calls of next_token, peek_first is token k of
\* the source and peek_second is token k + 1 (Eof past the end); a call
\* returns the token peek_first showed before it, which is token k - 1, and
\* the former peek_second becomes peek_first.
C1_Window ==
  pc = "ready" =>
    /\ peek_first(lexer) = TokenAt(src, lexer.taken)
    /\ peek_second(lexer) = TokenAt(src, lexer.taken + 1)
    /\ call.op = "next_token" =>
         /\ lexer.taken = call.pre.taken + 1
         /\ call.val = peek_first(call.pre)
         /\ call.val = TokenAt(src, lexer.taken - 1)
         /\ peek_first(lexer) = peek_second(call.pre)

\* C1: two calls on "(1;" returned ( and then 1, and the window shows ; Eof
C1_Witness ==
  /\ call.op = "next_token"
  /\ lexer.taken = 2
  /\ peek_first(call.pre).kind = "Number"
  /\ call.val = peek_first(call.pre)
  /\ peek_first(lexer) = Semi
  /\ peek_second(lexer) = Eof

---------------------------------------------------------------------------
(* C2: precedence climbing                                                 *)

\* the tokens of the bytes p, without the Eof
RECURSIVE Tokens(_)
Tokens(p) ==
  Bind(get_tok(p), LAMBDA g :
    IF g.tok = Eof \/ g.panicked THEN <<>> ELSE <<g.tok>> \o Tokens(g.peeker))

\* p0 op1 p1 ... opn pn
IsChain(ts) ==
  /\ Len(ts) % 2 = 1
  /\ \A i \in 1..Len(ts) :
       IF i % 2 = 1 THEN IsPrimaryToken(ts[i]) ELSE IsOperatorToken(ts[i])

\* the precedence of the grammar's operators
Binds(t) == IF t = Less THEN 10 ELSE IF t = Mul THEN 40 ELSE 20

\* the operator at which a chain splits: the last of those that bind least
SplitAt(ts) ==
  CHOOSE i \in 1..Len(ts) :
    /\ i % 2 = 0
    /\ \A j \in 1..Len(ts) :
         j % 2 = 0 => \/ Binds(ts[j]) > Binds(ts[i])
                      \/ Binds(ts[j]) = Binds(ts[i]) /\ j <= i

OpChar(t) ==
  CASE t = Add -> "+" [] t = Sub -> "-" [] t = Mul -> "*" [] t = Less -> "<"

\* the tree of a chain: tighter operators group first, equal ones group
\* left to right
RECURSIVE ChainTree(_)
ChainTree(ts) ==
  IF Len(ts) = 1
    THEN IF ts[1].kind = "Number" THEN NumAst(ts[1].num) ELSE VarAst(ts[1].text)
    ELSE Bind(SplitAt(ts), LAMBDA i :
           BinAst(ChainTree(SubSeq(ts, 1, i - 1)), OpChar(ts[i]),
                  ChainTree(SubSeq(ts, i + 1, Len(ts)))))

Num(n) == NumAst(<<n, 0>>)

\* C2: ExprAst::parse on a chain p0 op1 p1 ... opn pn consumes all of it and
\* returns the tree in which a tighter operator groups before a looser
\* neighbour and equal operators group left to right; so it does on
\* 1 + 2 * 3, on 1 - 2 - 3 and on 1 < foo + bar * 42 - baz.
C2_Precedence ==
  Ran("ExprAst::parse") =>
    /\ IsChain(Tokens(src)) =>
         /\ call.ok
         /\ call.val = ChainTree(Tokens(src))
         /\ lexer.taken = Len(Tokens(src))
         /\ peek_first(lexer) = Eof
    /\ src = Spell(<< <<"1">>, <<"+">>, <<"2">>, <<"*">>, <<"3">> >>) =>
         call.val = BinAst(Num(1), "+", BinAst(Num(2), "*", Num(3)))
    /\ src = Spell(<< <<"1">>, <<"-">>, <<"2">>, <<"-">>, <<"3">> >>) =>
         call.val = BinAst(BinAst(Num(1), "-", Num(2)), "-", Num(3))
    /\ src = Chain(<< <<"<">>, <<"+">>, <<"*">>, <<"-">> >>) =>
         call.val =
           BinAst(Num(1), "<",
                  BinAst(BinAst(VarAst(<<"f","o","o">>), "+",
                                BinAst(VarAst(<<"b","a","r">>), "*", Num(42))),
                         "-", VarAst(<<"b","a","z">>)))

\* C2: ExprAst::parse has returned the tree of 1 < foo + bar * 42 - baz
C2_Witness ==
  /\ Ran("ExprAst::parse")
  /\ src = Chain(<< <<"<">>, <<"+">>, <<"*">>, <<"-">> >>)
  /\ call.ok
  /\ call.val.op = "<"
  /\ call.val.args[2].op = "-"
  /\ call.val.args[2].args[1].args[2].op = "*"

---------------------------------------------------------------------------
(* C3: call or variable                                                    *)

\* the tokens a tree is made of, in source order, without `(` `)` `,`
RECURSIVE Yield(_)
RECURSIVE YieldAll(_)
Yield(e) ==
  CASE e.kind = "NumAst"  -> <<Number(e.num)>>
    [] e.kind = "VarAst"  -> <<Identifier(e.name)>>
    [] e.kind = "BinAst"  ->
         Yield(e.args[1])
           \o <<CHOOSE t \in {Add, Sub, Mul, Less} : OpChar(t) = e.op>>
           \o Yield(e.args[2])
    [] e.kind = "CallAst" -> <<Identifier(e.name)>> \o YieldAll(e.args)

YieldAll(es) == IF es = <<>> THEN <<>> ELSE Yield(Head(es)) \o YieldAll(Tail(es))

IsPunctuation(t) == t \in {LeftParen, RightParen, Comma}

RECURSIVE Unpunctuated(_)
Unpunctuated(ts) ==
  IF ts = <<>> THEN <<>>
  ELSE IF IsPunctuation(Head(ts)) THEN Unpunctuated(Tail(ts))
  ELSE <<Head(ts)>> \o Unpunctuated(Tail(ts))

\* how many `(` are open before the i-th of the tokens ts
RECURSIVE Depth(_, _)
Depth(ts, i) ==
  IF i <= 1 THEN 0
  ELSE Depth(ts, i - 1)
         + (IF ts[i - 1] = LeftParen THEN 1
            ELSE IF ts[i - 1] = RightParen THEN -1 ELSE 0)

\* how many expressions are written in the argument list of the call whose
\* tokens are ts = name ( ... ): those that start right after the call's `(`
\* or after one of its commas
Written(ts) ==
  Cardinality({i \in 3..(Len(ts) - 1) :
                 /\ Depth(ts, i) = 1
                 /\ ts[i] # Comma
                 /\ i = 3 \/ ts[i - 1] = Comma})

\* C3: on a pending identifier parse_primary returns a CallAst only if the
\* second token is `(`, and never a VarAst then; otherwise it returns the
\* VarAst of the identifier and consumes that one token.  A call's tree is
\* made of the consumed tokens in source order, it has as many arguments as
\* expressions are written, name ( ) has none, and its `)` is consumed.
C3_CallOrVariable ==
  (Ran("parse_primary") /\ peek_first(call.pre).kind = "Identifier") =>
    /\ (call.ok /\ call.val.kind = "CallAst") => peek_second(call.pre) = LeftParen
    /\ (call.ok /\ peek_second(call.pre) = LeftParen) =>
         /\ call.val.kind = "CallAst"
         /\ call.val.name = peek_first(call.pre).text
         /\ Yield(call.val) = Unpunctuated(Consumed)
         /\ Len(call.val.args) = Written(Consumed)
         /\ Consumed[Len(Consumed)] = RightParen
         /\ Depth(Consumed, Len(Consumed)) = 1
    /\ peek_second(call.pre) # LeftParen =>
         /\ call.ok
         /\ call.val = VarAst(peek_first(call.pre).text)
         /\ lexer = eat(call.pre)
         /\ lexer.taken = 1
    /\ (peek_second(call.pre) = LeftParen /\ Pending(call.pre, 3) = RightParen) =>
         /\ call.ok
         /\ call.val = CallAst(peek_first(call.pre).text, <<>>)
         /\ lexer.taken = 3

\* C3: parse_primary has returned a call with three arguments, the first of
\* them a call with two
C3_Witness ==
  /\ Ran("parse_primary")
  /\ call.ok
  /\ call.val.kind = "CallAst"
  /\ Len(call.val.args) = 3
  /\ call.val.args[1].kind = "CallAst"
  /\ Len(call.val.args[1].args) = 2
  /\ peek_first(lexer) = Eof

---------------------------------------------------------------------------
(* C4: the parenthesized primary                                           *)

\* every `)` of the tokens ts closes a `(` of theirs, and none stays open
Balanced(ts) ==
  /\ \A i \in 1..(Len(ts) + 1) : Depth(ts, i) >= 0
  /\ Depth(ts, Len(ts) + 1) = 0

\* the full expression after the pending `(` of the lexer pre
Inner(pre) == Call("ExprAst::parse", <<eat(pre)>>)

\* C4: on a pending `(` parse_primary succeeds exactly when a full
\* expression follows the `(` and the token pending after it is `)`; it
\* returns that expression's tree and leaves the lexer right after the `)`.
\* The parentheses of what a successful parse consumed are balanced.
\* (1 + 2) * 3 is BinAst(BinAst(1,+,2),*,3).
C4_Paren ==
  /\ (Ran("parse_primary") /\ peek_first(call.pre) = LeftParen) =>
       /\ call.ok <=> (Inner(call.pre).ok
                        /\ peek_first(Inner(call.pre).lx) = RightParen)
       /\ call.ok =>
            /\ call.val = Inner(call.pre).val
            /\ lexer = eat(Inner(call.pre).lx)
            /\ Consumed[1] = LeftParen
            /\ Consumed[Len(Consumed)] = RightParen
  /\ (call.op \in {"parse_primary", "ExprAst::parse"} /\ call.ok) =>
       Balanced(Consumed)
  /\ (Ran("ExprAst::parse")
        /\ src = <<"(","1"," ","+"," ","2",")"," ","*"," ","3">>) =>
       call.val = BinAst(BinAst(Num(1), "+", Num(2)), "*", Num(3))

\* C4: parse_primary has returned the tree of ((a + 1) * 2) and stopped
\* in front of the `<` that follows it
C4_Witness ==
  /\ Ran("parse_primary")
  /\ peek_first(call.pre) = LeftParen
  /\ call.ok
  /\ call.val.op = "*"
  /\ call.val.args[1].op = "+"
  /\ peek_first(lexer) = Less

---------------------------------------------------------------------------
(* C5, C6: the top level                                                   *)

\* the last call was one step of a top-level driver, Ast::parse of
\* parser.rs or one iteration of the loop of parse_ast of ast.rs, and the
\* lexer did not panic on a byte read ahead during it
TopLevel == call.op \in {"Ast::parse", "parse_ast"} /\ ~lexer.panicked

\* the units the last top-level step delivered
Units ==
  IF ~call.ok THEN <<>>
  ELSE IF call.op = "parse_ast" THEN call.val
  ELSE <<call.val>>

\* the expression a top-level step finds at the pending token, as the
\* expression parser of its file reads it
Expression ==
  IF call.op = "parse_ast" THEN CallAST("ExprAST::parse", <<call.pre>>)
  ELSE Call("ExprAst::parse", <<call.pre>>)

\* C5: a top-level step on a pending `;` consumes exactly that token and
\* delivers no unit, and on a pending end-of-stream it consumes nothing and
\* delivers no unit; in neither case does it fail.
C5_Separators ==
  TopLevel =>
    /\ peek_first(call.pre) = Semi =>
         call.ok /\ Units = <<>> /\ Consumed = <<Semi>>
    /\ peek_first(call.pre) = Eof =>
         call.ok /\ Units = <<>> /\ Consumed = <<>>

\* C6: a top-level step on a pending `extern` that succeeds delivers a
\* Prototype unit and on a pending `def` a Function unit; on the start of
\* an expression it delivers a Function unit with the empty name, no
\* parameters and that expression as body, and never a raw expression.
C6_UnitKinds ==
  (TopLevel /\ call.ok /\ peek_first(call.pre) \notin {Semi, Eof}) =>
    /\ Len(Units) = 1
    /\ peek_first(call.pre) = Extern =>
         Units[1].unit \in {"Proto", "PrototypeAST"}
    /\ peek_first(call.pre) = Def =>
         Units[1].unit \in {"Func", "FunctionAST"}
    /\ peek_first(call.pre) \notin {Extern, Def} =>
         /\ Units[1].unit \in {"Func", "FunctionAST"}
         /\ Units[1].proto = ProtoAst(<<>>, <<>>)
         /\ Units[1].body = Expression.val

---------------------------------------------------------------------------
(* C7, C8: prototypes                                                      *)

\* how many identifiers are pending in the lexer lx from its token i on
RECURSIVE Idents(_, _)
Idents(lx, i) ==
  IF Pending(lx, i).kind = "Identifier" THEN 1 + Idents(lx, i + 1) ELSE 0

\* the tokens pending in lx start with IDENT ( IDENT* )
IsPrototype(lx) ==
  /\ Pending(lx, 1).kind = "Identifier"
  /\ Pending(lx, 2) = LeftParen
  /\ Pending(lx, 3 + Idents(lx, 3)) = RightParen

\* the parameter names of the prototype pending in lx
Params(lx) == [i \in 1..Idents(lx, 3) |-> Pending(lx, i + 2).text]

DefFoo == <<"d","e","f"," ","f","o","o","(","a"," ","b",")"," ","a","+","b","*","2">>

\* C7: on tokens IDENT ( IDENT* ) followed by anything, each of the two
\* prototype parsers returns the name and the parameter names in source
\* order, has consumed through the `)` and no further, and leaves the token
\* after the `)` pending.  def foo(a b) a+b*2 is
\* Function(Prototype(foo,[a,b]), Bin(a,+,Bin(b,*,2))).
C7_PrototypeForm ==
  /\ (call.op \in {"ProtoAst::parse", "PrototypeAST::parse"}
        /\ Ran(call.op) /\ IsPrototype(call.pre)) =>
       /\ call.ok
       /\ call.val = ProtoAst(Pending(call.pre, 1).text, Params(call.pre))
       /\ Len(Consumed) = Len(Params(call.pre)) + 3
       /\ Consumed[Len(Consumed)] = RightParen
       /\ peek_first(lexer) = Pending(call.pre, Len(Params(call.pre)) + 4)
  /\ (Ran("FuncAst::parse") /\ src = DefFoo) =>
       /\ call.ok
       /\ call.val = FuncAst(ProtoAst(<<"f","o","o">>, << <<"a">>, <<"b">> >>),
                             BinAst(VarAst(<<"a">>), "+",
                                    BinAst(VarAst(<<"b">>), "*", Num(2))))
  /\ (Ran("FunctionAST::parse") /\ src = DefFoo) =>
       /\ call.ok
       /\ call.val = FunctionAST(PrototypeAST(<<"f","o","o">>, << <<"a">>, <<"b">> >>),
                                 BinaryExpr(VariableExpr(<<"a">>), "+",
                                   BinaryExpr(VariableExpr(<<"b">>), "*",
                                              NumberExpr(<<2, 0>>))))

\* C8: ProtoAst::parse succeeds only on the grammar form: what it consumed
\* is an identifier, then `(`, then identifiers only (no comma, number,
\* operator or end-of-stream), then `)`.
C8_PrototypeRejects ==
  (Ran("ProtoAst::parse") /\ call.ok) =>
    /\ Len(Consumed) >= 3
    /\ Consumed[1].kind = "Identifier"
    /\ Consumed[2] = LeftParen
    /\ \A i \in 3..(Len(Consumed) - 1) : Consumed[i].kind = "Identifier"
    /\ Consumed[Len(Consumed)] = RightParen

---------------------------------------------------------------------------
(* C9: malformed argument lists                                            *)

\* the last call was one of the expression parsers
ParsedExpr == call.op \in {"ExprAst::parse", "parse_primary", "ExprAST::parse"}

\* C9: an expression parser that succeeds has consumed no `,` that is
\* followed at once by `)`: foo(1,) is a failure and never Call(foo,[1]);
\* and (1 + is a failure.
C9_ArgumentLists ==
  /\ (ParsedExpr /\ call.ok) =>
       \A i \in 1..(Len(Consumed) - 1) :
         ~(Consumed[i] = Comma /\ Consumed[i + 1] = RightParen)
  /\ (ParsedExpr /\ src = <<"f","o","o","(","1",",",")">>) => ~call.ok
  /\ (ParsedExpr /\ src = <<"(","1"," ","+">>) => ~call.ok

---------------------------------------------------------------------------
(* C10: bytes the lexer does not know                                      *)

\* the bytes a token may start with, and those skipped between tokens
Recognized(c) ==
  \/ is_ascii_whitespace(c)
  \/ c = "#"
  \/ is_ascii_alphabetic(c)
  \/ is_ascii_digit(c)
  \/ c \in {"(", ")", ",", ";", "+", "-", "*", "<"}

\* the bytes p without the whitespace and the comments they start with
RECURSIVE Skipped(_)
Skipped(p) ==
  IF p = <<>> THEN p
  ELSE IF is_ascii_whitespace(Head(p)) THEN Skipped(Tail(p))
  ELSE IF Head(p) = "#"
    THEN Skipped(Drop(Tail(p), RunLen("comment", Tail(p))))
  ELSE p

\* the next token of the bytes p starts at a byte that is not recognized
Unrecognized(p) == Skipped(p) # <<>> /\ ~Recognized(Head(Skipped(p)))

\* C10: when the lexer comes to a byte that is not recognized, building it
\* or the call of next_token that reads the byte ends in an error and no
\* token is emitted for the byte.
C10_LexicalError ==
  /\ (call.op = "new" /\ Unrecognized(src)) => lexer.panicked
  /\ (call.op = "new" /\ ~get_tok(src).panicked
        /\ Unrecognized(get_tok(src).peeker)) => lexer.panicked
  /\ (call.op = "next_token" /\ Unrecognized(call.pre.peeker)) =>
       lexer.panicked

---------------------------------------------------------------------------
(* C11: end-of-stream                                                      *)

\* C11: once the reader is exhausted a call of next_token does not fault
\* and refills the window with Eof; once the pending token is Eof every
\* call returns Eof and leaves Eof in both slots, however many calls are
\* made; the lexer over the empty source starts that way.
C11_EofPersists ==
  /\ (call.op = "new" /\ src = <<>>) =>
       pc = "ready" /\ peek_first(lexer) = Eof /\ peek_second(lexer) = Eof
  /\ (pc = "ready" /\ peek_first(lexer) = Eof) =>
       peek_second(lexer) = Eof /\ lexer.peeker = <<>>
  /\ (call.op = "next_token" /\ call.pre.peeker = <<>>) =>
       pc = "ready" /\ peek_second(lexer) = Eof /\ lexer.peeker = <<>>
  /\ (call.op = "next_token" /\ peek_first(call.pre) = Eof) =>
       /\ pc = "ready"
       /\ call.val = Eof
       /\ peek_first(lexer) = Eof
       /\ peek_second(lexer) = Eof

\* C11: next_token has been called on "(" as often as the model allows; the
\* first call returned the `(` and every later one Eof
C11_Witness ==
  /\ src = <<"(">>
  /\ call.op = "next_token"
  /\ lexer.taken = MaxCalls
  /\ peek_first(call.pre) = Eof
  /\ call.val = Eof
  /\ peek_first(lexer) = Eof

---------------------------------------------------------------------------
(* C12: identifiers and keywords                                           *)

\* the longest prefix of the bytes p made of ASCII letters and digits
RECURSIVE AlnumRun(_)
AlnumRun(p) ==
  IF p = <<>> \/ ~is_ascii_alphanumeric(Head(p)) THEN <<>>
  ELSE <<Head(p)>> \o AlnumRun(Tail(p))

\* the next token of the bytes p starts with an ASCII letter
AtLetter(p) == Skipped(p) # <<>> /\ is_ascii_alphabetic(Head(Skipped(p)))

\* the token the text of a letter-started run stands for
Scanned(text) ==
  IF text = <<"d","e","f">> THEN Def
  ELSE IF text = <<"e","x","t","e","r","n">> THEN Extern
  ELSE Identifier(text)

\* get_tok on the bytes p, which start a token with a letter, yields the
\* one token of the whole run and leaves the reader at the byte that ends it
ScansRun(p, g) ==
  /\ ~g.panicked
  /\ g.tok = Scanned(AlnumRun(Skipped(p)))
  /\ g.tok = Def <=> AlnumRun(Skipped(p)) = <<"d","e","f">>
  /\ g.tok = Extern <=> AlnumRun(Skipped(p)) = <<"e","x","t","e","r","n">>
  /\ g.tok \notin {Def, Extern} =>
       g.tok.kind = "Identifier" /\ g.tok.text = AlnumRun(Skipped(p))
  /\ g.peeker = Drop(Skipped(p), Len(AlnumRun(Skipped(p))))

\* C12: a letter and the longest run of letters and digits after it become
\* one token: Def iff the text is def, Extern iff it is extern, else the
\* Identifier of the exact text; the byte that ends the run stays in the
\* reader and starts the next token.
C12_Identifiers ==
  /\ (call.op = "new" /\ AtLetter(src)) =>
       /\ ScansRun(src, get_tok(src))
       /\ pc = "ready" => peek_first(lexer) = Scanned(AlnumRun(Skipped(src)))
       /\ pc = "ready" =>
            peek_second(lexer) =
              get_tok(Drop(Skipped(src), Len(AlnumRun(Skipped(src))))).tok
  /\ (call.op = "next_token" /\ AtLetter(call.pre.peeker)) =>
       /\ pc = "ready"
       /\ ScansRun(call.pre.peeker,
                   [tok |-> peek_second(lexer), peeker |-> lexer.peeker,
                    panicked |-> lexer.panicked])

\* C12: on "externs def" the first call returned the identifier externs and
\* the keyword def is pending
C12_Witness ==
  /\ call.op = "next_token"
  /\ call.val = Identifier(<<"e","x","t","e","r","n","s">>)
  /\ peek_first(lexer) = Def
  /\ AtLetter(src)

---------------------------------------------------------------------------
(* C13: comments and whitespace                                            *)

\* the bytes of p after its first newline, none if it has no newline
RECURSIVE AfterNewline(_)
AfterNewline(p) ==
  IF p = <<>> THEN <<>>
  ELSE IF Head(p) = "\n" THEN Tail(p)
  ELSE AfterNewline(Tail(p))

\* the bytes of p after the whitespace it starts with
RECURSIVE AfterSpace(_)
AfterSpace(p) ==
  IF p # <<>> /\ is_ascii_whitespace(Head(p)) THEN AfterSpace(Tail(p)) ELSE p

HasNewline(p) == \E i \in 1..Len(p) : p[i] = "\n"

\* what get_tok makes of bytes that start with a comment or with whitespace:
\* the token of what follows them
Resumes(p, g) ==
  /\ (p # <<>> /\ Head(p) = "#") =>
       /\ g = get_tok(AfterNewline(p))
       /\ ~HasNewline(p) => g = [tok |-> Eof, peeker |-> <<>>, panicked |-> FALSE]
  /\ (p # <<>> /\ is_ascii_whitespace(Head(p))) => g = get_tok(AfterSpace(p))

\* how many bytes of p are left after each of its tokens
RECURSIVE Rests(_)
Rests(p) ==
  Bind(get_tok(p), LAMBDA g :
    IF g.tok = Eof \/ g.panicked THEN {}
    ELSE {Len(g.peeker)} \cup Rests(g.peeker))

\* whitespace and newline-terminated comments
Inserts ==
  { <<" ">>, <<"\t", "\n">>, <<"#", "\n">>, <<" ", "#", " ", "a", "(", "\n">> }

InsertAt(p, i, x) == SubSeq(p, 1, i) \o x \o SubSeq(p, i + 1, Len(p))

\* C13: get_tok emits no token for a comment or for whitespace: after a `#`
\* it resumes with the byte after the next newline, a comment that reaches
\* the end of the input gives Eof and no fault, and a run of whitespace is
\* skipped.  The tokens of a source stay the same when whitespace or a
\* comment that ends in a newline is inserted right after one of its tokens.
C13_CommentsAndSpace ==
  /\ call.op = "new" =>
       /\ Resumes(src, get_tok(src))
       /\ Bind(Tokens(src), LAMBDA ts :
            \A r \in Rests(src), x \in Inserts :
              Tokens(InsertAt(src, Len(src) - r, x)) = ts)
  /\ call.op = "next_token" /\ pc = "ready" =>
       Resumes(call.pre.peeker,
               [tok |-> peek_second(lexer), peeker |-> lexer.peeker,
                panicked |-> lexer.panicked])
  /\ (call.op = "next_token" /\ call.pre.peeker # <<>>
        /\ Head(call.pre.peeker) = "#" /\ ~HasNewline(call.pre.peeker)) =>
       pc = "ready" /\ peek_second(lexer) = Eof

\* C13: on "def foo  # c \n 42" (tests::token_comment) the second call
\* returned foo and the number after the comment is pending
C13_Witness ==
  /\ src = <<"d","e","f"," ","f","o","o"," "," ","#"," ","c"," ","\n"," ","4","2">>
  /\ call.op = "next_token"
  /\ call.val = Identifier(<<"f","o","o">>)
  /\ peek_first(lexer) = Number(<<42, 0>>)
  /\ peek_second(lexer) = Eof

---------------------------------------------------------------------------
(* C14: numeric literals                                                   *)

\* the longest prefix of the bytes p made of ASCII digits and dots
RECURSIVE NumRun(_)
NumRun(p) ==
  IF p = <<>> \/ ~(is_ascii_digit(Head(p)) \/ Head(p) = ".") THEN <<>>
  ELSE <<Head(p)>> \o NumRun(Tail(p))

\* the next token of the bytes p starts with an ASCII digit
AtDigit(p) == Skipped(p) # <<>> /\ is_ascii_digit(Head(Skipped(p)))

\* a text of digits and dots that starts with a digit is a literal of f64
\* when it has no second dot
Parsable(text) == Cardinality({i \in 1..Len(text) : text[i] = "."}) <= 1

\* get_tok on the bytes p, which start a token with a digit: one Number for
\* the whole run, the reader left at the byte that ends it, or a panic
ScansLiteral(p, g) ==
  IF Parsable(NumRun(Skipped(p)))
    THEN /\ ~g.panicked
         /\ g.tok.kind = "Number"
         /\ g.peeker = Drop(Skipped(p), Len(NumRun(Skipped(p))))
    ELSE g.panicked

\* C14: a digit and the longest run of digits and dots after it are one
\* literal: one Number token when the text parses, a fatal failure when it
\* does not (1.2.3); the run is never split and never gives another token.
\* 3.14 is the number 3.14.
C14_Numbers ==
  /\ (call.op = "new" /\ AtDigit(src)) =>
       /\ ScansLiteral(src, get_tok(src))
       /\ pc = "ready" => peek_first(lexer).kind = "Number"
       /\ ~Parsable(NumRun(Skipped(src))) => pc = "panicked"
  /\ (call.op = "next_token" /\ AtDigit(call.pre.peeker)) =>
       /\ ScansLiteral(call.pre.peeker,
                       [tok |-> peek_second(lexer), peeker |-> lexer.peeker,
                        panicked |-> lexer.panicked])
       /\ pc = "ready" <=> Parsable(NumRun(Skipped(call.pre.peeker)))
  /\ (call.op = "new" /\ src = <<"3", ".", "1", "4">>) =>
       peek_first(lexer) = Number(<<314, 2>>) /\ peek_second(lexer) = Eof

\* C14: on "a 1 1.2.3" the first call of next_token came to the literal
\* 1.2.3 and panicked
C14_Witness ==
  /\ call.op = "next_token"
  /\ AtDigit(call.pre.peeker)
  /\ NumRun(Skipped(call.pre.peeker)) = <<"1", ".", "2", ".", "3">>
  /\ peek_second(call.pre).kind = "Number"
  /\ pc = "panicked"

---------------------------------------------------------------------------
(* C15: the panic arm of the operator match                                *)

\* the thresholds parse_bin_rhs is called with: 0 by ExprAst::parse, the
\* precedence of an operator by its loop
Thresholds == {0} \cup {get_precedence(t) : t \in {Less, Add, Sub, Mul}}

\* the thresholds parse_bin_ops is called with: 0 by ExprAST::parse, the
\* precedence of an operator plus one by itself
ThresholdsAST == {0} \cup {precedence(t) + 1 : t \in {Less, Add, Sub, Mul}}

\* C15: no parse ends in the panic arm of the match on the token consumed
\* as a binary operator, in parse_bin_rhs or in parse_bin_ops; a token of
\* the window that passes the threshold test, under any threshold the
\* parsers pass, is one of + - * <.
C15_OperatorExpected ==
  /\ call.err \notin {"parse_bin_rhs", "parse_bin_ops"}
  /\ \A tok \in {peek_first(lexer), peek_second(lexer),
                 peek_first(call.pre), peek_second(call.pre)} :
       /\ \A t \in Thresholds :
            ~stops(get_precedence(tok), t) =>
              IsOperatorToken(tok) /\ operator_of(tok) # ""
       /\ \A t \in ThresholdsAST :
            ~(precedence(tok) < t) =>
              IsOperatorToken(tok) /\ binop_of(tok) # ""

\* C15: ExprAst::parse consumed an operator and then stopped in front of a
\* `)`, which does not pass the threshold test
C15_Witness ==
  /\ Ran("ExprAst::parse")
  /\ call.ok
  /\ call.val.kind = "BinAst"
  /\ IsOperatorToken(Consumed[2])
  /\ peek_first(lexer) = RightParen

---------------------------------------------------------------------------
(* C16: where a full expression ends                                       *)

\* the lexer lx after n calls of next_token
RECURSIVE Advance(_, _)
Advance(lx, n) == IF n = 0 THEN lx ELSE Advance(eat(lx), n - 1)

\* C16: when ExprAst::parse succeeds the pending token is none of + - * <,
\* the lexer stands where as many next_token calls as tokens were consumed
\* leave it, and the tokens consumed are, in order, those of the returned
\* tree and its parentheses and commas.
C16_StopsAtNonOperator ==
  (Ran("ExprAst::parse") /\ call.ok) =>
    /\ ~IsOperatorToken(peek_first(lexer))
    /\ Len(Consumed) >= 1
    /\ lexer = Advance(call.pre, Len(Consumed))
    /\ Yield(call.val) = Unpunctuated(Consumed)
    /\ Balanced(Consumed)

\* C16: ExprAst::parse returned the tree of a product and stopped in
\* front of a comma that an identifier follows
C16_Witness ==
  /\ Ran("ExprAst::parse")
  /\ call.ok
  /\ call.val.kind = "BinAst"
  /\ call.val.op = "*"
  /\ Len(Consumed) = 3
  /\ peek_first(lexer) = Comma
  /\ peek_second(lexer).kind = "Identifier"

---------------------------------------------------------------------------
(* C18: the two expression parsers                                         *)

\* the tokens ts are numbers, identifiers that no `(` follows, parentheses
\* and the operators + - * <
CallFree(ts) ==
  /\ \A i \in 1..Len(ts) :
       \/ IsPrimaryToken(ts[i])
       \/ IsOperatorToken(ts[i])
       \/ ts[i] \in {LeftParen, RightParen}
  /\ \A i \in 1..(Len(ts) - 1) :
       ~(ts[i].kind = "Identifier" /\ ts[i + 1] = LeftParen)

\* the tree of parser.rs that has the structure of the tree e of ast.rs
RECURSIVE AsExprAst(_)
AsExprAst(e) ==
  CASE e.kind = "NumberExpr"   -> NumAst(e.num)
    [] e.kind = "VariableExpr" -> VarAst(e.name)
    [] e.kind = "BinaryExpr"   ->
         BinAst(AsExprAst(e.args[1]), e.op, AsExprAst(e.args[2]))
    [] e.kind = "CallExpr"     ->
         CallAst(e.name, [i \in 1..Len(e.args) |-> AsExprAst(e.args[i])])

\* the results r of ExprAst::parse and q of ExprAST::parse agree
Agree(r, q) ==
  /\ r.ok <=> q.ok
  /\ r.ok =>
       /\ AsExprAst(q.val) = r.val
       /\ peek_first(q.lx) = peek_first(r.lx)
       /\ q.lx = r.lx

\* the last call as a result
Result == [ok |-> call.ok, val |-> call.val, lx |-> lexer, err |-> call.err]

\* C18: on a source of numbers, identifiers that no `(` follows, parentheses
\* and operators, ExprAst::parse of parser.rs and ExprAST::parse of ast.rs
\* both fail, or both succeed with trees of the same structure and the same
\* token pending.
C18_ParsersAgree ==
  /\ (call.op = "ExprAst::parse" /\ call.pre = new(src)
        /\ CallFree(Tokens(src))) =>
       Agree(Result, CallAST("ExprAST::parse", <<call.pre>>))
  /\ (call.op = "ExprAST::parse" /\ call.pre = new(src)
        /\ CallFree(Tokens(src))) =>
       Agree(Call("ExprAst::parse", <<call.pre>>), Result)

\* C18: ExprAST::parse of ast.rs has returned the tree of
\* 1 < foo + bar * 42 - baz
C18_Witness ==
  /\ Ran("ExprAST::parse")
  /\ src = Chain(<< <<"<">>, <<"+">>, <<"*">>, <<"-">> >>)
  /\ CallFree(Tokens(src))
  /\ call.ok
  /\ call.val.kind = "BinaryExpr"
  /\ call.val.op = "<"
  /\ call.val.args[2].op = "-"
  /\ peek_first(lexer) = Eof

---------------------------------------------------------------------------
(* C17: parsing ends                                                       *)

\* the lexer over src after each number of next_token calls up to its end
Positions == {Advance(new(src), k) : k \in 0..Len(Tokens(src))}

\* the call that returned r on the lexer lx failed, or consumed a token
Progress(lx, r) == ~r.ok \/ (r.lx.taken > lx.taken /\ peek_first(lx) # Eof)

\* an operand for the calls of parse_bin_rhs below
Operand == VarAst(<<"x">>)

\* every iteration and every recursive call that goes on makes progress,
\* wherever in the source it starts
C17_Progress ==
  /\ (call.op = "parse_ast" /\ pc = "parse_ast") =>
       Len(Consumed) >= 1 /\ peek_first(call.pre) # Eof
  /\ (call.op = "new" /\ pc = "ready") =>
       \A lx \in Positions :
         \* parse_bin_rhs that does not return at once, which covers the
         \* recursive call of its loop (there prec_next > prec_cur)
         /\ \A t \in Thresholds :
              ~stops(get_precedence(peek_first(lx)), t) =>
                Progress(lx, Call("parse_bin_rhs", <<lx, Operand, t>>))
         /\ \A t \in Thresholds :
              ~merges(get_precedence(peek_first(lx)), t) =>
                ~stops(get_precedence(peek_first(lx)), t)
         \* an iteration of the loop of parse_call
         /\ peek_first(lx) # RightParen =>
              Progress(lx, Call("ExprAst::parse", <<lx>>))
         \* an iteration of the loop of ProtoAst::parse
         /\ Progress(lx, ProtoAst_parse_loop(lx, <<"f">>, <<>>))
         /\ peek_first(lx) # Eof => Progress(lx, Token(next_token(lx)))
         \* an iteration of the loop of parse_ast
         /\ LET r == CallAST("parse_ast", <<lx>>)
            IN  r.stop \/ Progress(lx, r)

\* C17: every iteration of the loop of parse_ast and every call of
\* parse_bin_rhs, of the loops of parse_call and of ProtoAst::parse that
\* goes on consumes a token or fails, and the loop of parse_ast, once
\* entered, ends: it breaks at the end of the input or it panics.
C17_ParsingEnds ==
  /\ []C17_Progress
  /\ (call.op = "parse_ast") ~> (pc \in {"done", "panicked"})

\* C17: parse_ast went through 1;a(2);;3 * b; and broke out of its loop at
\* the end of the input with three units in buf
C17_Witness ==
  /\ call.op = "parse_ast"
  /\ pc = "done"
  /\ Len(buf) = 3
  /\ peek_first(lexer) = Eof
  /\ lexer.taken >= 10

===========================================================================
